---- MODULE Spec2Model ----
(***************************************************************************)
(* Course catalog service (src/app.py): a Flask application whose store is *)
(* one JSON document, course_catalog.json.                                 *)
(*                                                                         *)
(* Text is a sequence of one-character strings, so that str.strip() is     *)
(* computed and not assumed.  A submitted form is werkzeug's MultiDict:    *)
(* every key maps to the sequence of values sent for it, <<>> when the key *)
(* was not sent.                                                           *)
(*                                                                         *)
(* Spec     : requests handled one at a time, one action per handler.      *)
(* ConcSpec : two request threads; a handler is cut at its file accesses   *)
(*            (load, open for writing, flush on close), which is where     *)
(*            the threads of the server interleave.                        *)
(*                                                                         *)
(* The OpenTelemetry spans and the formatting of log records do not touch  *)
(* the document or the responses and are left out; of logging, the model   *)
(* keeps the level of every record the application emits per request.     *)
(***************************************************************************)
EXTENDS Integers, Sequences, FiniteSets, TLC

VARIABLES
    doc,      \* the backing document course_catalog.json
    req,      \* Spec: the request handled last
    resp,     \* Spec: the response to it
    logs,     \* Spec: levels of the log records the application emitted for it
    saved,    \* history: the records whose save_courses call returned, in order
    pc,       \* ConcSpec: per thread, the position inside save_courses
    local,    \* ConcSpec: per thread, the list `courses` of save_courses
    wreq,     \* ConcSpec: per thread, the request being handled, or handled last
    wresp,    \* ConcSpec: per thread, the response to the request handled last
    overlapped \* history: a request was started while another thread was inside save_courses

vars == <<doc, req, resp, logs, saved, pc, local, wreq, wresp, overlapped>>

-----------------------------------------------------------------------------
(* Bounds *)

\* Spec: no record is appended to a document that holds MaxCourses records.
MaxCourses == 3

\* ConcSpec: no more than MaxSaves calls of save_courses get past their load.
MaxSaves == 2

-----------------------------------------------------------------------------
(* Text *)

Whitespace == {" ", "\t"}

E == <<>>

RECURSIVE LStrip(_)
LStrip(s) ==
    IF s # <<>> /\ Head(s) \in Whitespace THEN LStrip(Tail(s)) ELSE s

RECURSIVE RStrip(_)
RStrip(s) ==
    IF s # <<>> /\ s[Len(s)] \in Whitespace
    THEN RStrip(SubSeq(s, 1, Len(s) - 1))
    ELSE s

StripLeftOnly(s) == LStrip(s)

Strip(s) == RStrip(LStrip(s))

-----------------------------------------------------------------------------
(* Forms *)

RequiredFields == <<"code", "name", "instructor", "semester">>

OptionalFields == <<"schedule", "classroom", "prerequisites", "grading", "description">>

FieldNames ==
    {RequiredFields[i] : i \in DOMAIN RequiredFields}
        \cup {OptionalFields[i] : i \in DOMAIN OptionalFields}

\* request.form.get(field, default)
FormGet(form, field, default) ==
    IF form[field] = <<>> THEN default ELSE Head(form[field])

\* request.form[field]; only evaluated for keys the validation found present
FormItem(form, field) == Head(form[field])

RequiredInputs ==
    [code : {<<>>, <<E>>, <<<<" ">>>>, <<<<" ", "a", "\t">>>>, <<<<"b">>>>},
     name : {<<<<"\t">>>>, <<<<"n", " ">>>>},
     instructor : {<<E>>, <<<<" ", "i">>>>},
     semester : {<<>>, <<<<"s">>>>}]

OptionalInputs ==
    {[schedule |-> <<>>, classroom |-> <<>>, prerequisites |-> <<>>,
      grading |-> <<>>, description |-> <<>>],
     [schedule |-> <<<<" ">>>>, classroom |-> <<<<"r", " ">>>>,
      prerequisites |-> <<<<"\t", "p", " ", "q">>>>, grading |-> <<E>>,
      description |-> <<<<" ", "d", " ">>>>]}

Forms == {r @@ o : r \in RequiredInputs, o \in OptionalInputs}

NoForm == [f \in FieldNames |-> <<>>]

CodeParams == {<<"a">>, <<"b">>, <<"z">>, <<" ", "a", "\t">>}

-----------------------------------------------------------------------------
(* Course store *)

JsonArrayOverhead == 2

JsonRecordOverhead == 230

TextLen(c) ==
    Len(c.code) + Len(c.name) + Len(c.instructor) + Len(c.semester)
        + Len(c.schedule) + Len(c.classroom) + Len(c.prerequisites)
        + Len(c.grading) + Len(c.description)

RECURSIVE JsonSize(_)
\* len(json.dumps(courses, indent=4)) for records of the nine text fields
JsonSize(courses) ==
    IF courses = <<>>
    THEN JsonArrayOverhead
    ELSE JsonRecordOverhead + TextLen(Head(courses)) + JsonSize(Tail(courses))

AbsentDoc == [kind |-> "absent", courses |-> <<>>, size |-> 0]

ListDoc(courses) ==
    [kind |-> "list", courses |-> courses, size |-> JsonSize(courses)]

MalformedDoc(n) == [kind |-> "malformed", courses |-> <<>>, size |-> n]

LoadCreatesDocument(d) ==
    IF d.kind = "absent"
    THEN [ok |-> TRUE, courses |-> <<>>, doc |-> ListDoc(<<>>)]
    ELSE [ok |-> d.kind = "list", courses |-> d.courses, doc |-> d]

\* load_courses(): ok = FALSE is json.load raising; doc is the document after it
LoadCourses(d) ==
    IF d.kind = "absent"
    THEN [ok |-> TRUE, courses |-> <<>>, doc |-> d]
    ELSE [ok |-> d.kind = "list", courses |-> d.courses, doc |-> d]

SavePrepends(d, data) ==
    LET l == LoadCourses(d) IN
    IF l.ok
    THEN [ok |-> TRUE, doc |-> ListDoc(<<data>> \o l.courses)]
    ELSE [ok |-> FALSE, doc |-> l.doc]

SaveOverwrites(d, data) ==
    LET l == LoadCourses(d) IN
    IF l.ok
    THEN [ok |-> TRUE, doc |-> ListDoc(<<data>>)]
    ELSE [ok |-> FALSE, doc |-> l.doc]

SaveTruncatesFirst(d, data) ==
    LET l == LoadCourses(d) IN
    IF l.ok
    THEN [ok |-> TRUE, doc |-> ListDoc(Append(l.courses, data))]
    ELSE [ok |-> FALSE, doc |-> MalformedDoc(0)]

\* save_courses(data) run without interruption
SaveCourses(d, data) ==
    LET l == LoadCourses(d) IN
    IF l.ok
    THEN [ok |-> TRUE, doc |-> ListDoc(Append(l.courses, data))]
    ELSE [ok |-> FALSE, doc |-> l.doc]

-----------------------------------------------------------------------------
(* Responses *)

NoFlash == [category |-> "none", message |-> "", args |-> <<>>]

Flash(category, message, args) ==
    [category |-> category, message |-> message, args |-> args]

NoResponse ==
    [status |-> 0, body |-> "", location |-> "", flash |-> NoFlash, data |-> <<>>]

RenderTemplate(template, data) ==
    [status |-> 200, body |-> template, location |-> "", flash |-> NoFlash,
     data |-> data]

Redirect(endpoint, flash) ==
    [status |-> 302, body |-> "", location |-> endpoint, flash |-> flash,
     data |-> <<>>]

PlainText(text, status) ==
    [status |-> status, body |-> text, location |-> "", flash |-> NoFlash,
     data |-> <<>>]

\* handle_exception(e): the response, and the one record it logs
HandleException == PlainText("Internal Server Error", 500)

-----------------------------------------------------------------------------
(* Handlers, as functions of the document and the request *)

Request(route, form, code) == [route |-> route, form |-> form, code |-> code]

Outcome(d, r, l, s) == [doc |-> d, resp |-> r, logs |-> l, saved |-> s]

\* index()
IndexOutcome(d) == Outcome(d, RenderTemplate("index.html", <<>>), <<>>, <<>>)

\* course_catalog()
CourseCatalogOutcome(d) ==
    LET l == LoadCourses(d) IN
    IF l.ok
    THEN Outcome(l.doc, RenderTemplate("course_catalog.html", l.courses),
                 <<"INFO">>, <<>>)
    ELSE Outcome(l.doc, HandleException, <<"ERROR">>, <<>>)

MissingUnstripped(form) ==
    SelectSeq(RequiredFields, LAMBDA f : FormGet(form, f, E) = E)

\* missing_fields of add_course()
MissingFields(form) ==
    SelectSeq(RequiredFields, LAMBDA f : Strip(FormGet(form, f, E)) = E)

CourseUntrimmedOptionals(form) ==
    [code |-> Strip(FormItem(form, "code")),
     name |-> Strip(FormItem(form, "name")),
     instructor |-> Strip(FormItem(form, "instructor")),
     semester |-> Strip(FormItem(form, "semester")),
     schedule |-> FormGet(form, "schedule", E),
     classroom |-> FormGet(form, "classroom", E),
     prerequisites |-> FormGet(form, "prerequisites", E),
     grading |-> FormGet(form, "grading", E),
     description |-> FormGet(form, "description", E)]

\* the dict `course` of add_course()
Course(form) ==
    [code |-> Strip(FormItem(form, "code")),
     name |-> Strip(FormItem(form, "name")),
     instructor |-> Strip(FormItem(form, "instructor")),
     semester |-> Strip(FormItem(form, "semester")),
     schedule |-> Strip(FormGet(form, "schedule", E)),
     classroom |-> Strip(FormGet(form, "classroom", E)),
     prerequisites |-> Strip(FormGet(form, "prerequisites", E)),
     grading |-> Strip(FormGet(form, "grading", E)),
     description |-> Strip(FormGet(form, "description", E))]

ValidationError(missing) ==
    Redirect("add_course", Flash("error", "Required fields missing", missing))

AddedResponse(course) ==
    Redirect("course_catalog", Flash("success", "added successfully", course.name))

\* add_course(), GET
AddCourseGetOutcome(d) ==
    Outcome(d, RenderTemplate("add_course.html", <<>>), <<"INFO">>, <<>>)

\* add_course(), POST
AddCoursePostOutcome(d, form) ==
    LET missing == MissingFields(form) IN
    IF missing # <<>>
    THEN Outcome(d, ValidationError(missing), <<"ERROR">>, <<>>)
    ELSE LET course == Course(form)
             s == SaveCourses(d, course)
         IN  IF s.ok
             THEN Outcome(s.doc, AddedResponse(course), <<"INFO">>, <<course>>)
             ELSE Outcome(s.doc, HandleException, <<"ERROR">>, <<>>)

RECURSIVE LastMatch(_, _)
LastMatch(courses, code) ==
    IF courses = <<>>
    THEN <<>>
    ELSE IF courses[Len(courses)].code = code
         THEN <<courses[Len(courses)]>>
         ELSE LastMatch(SubSeq(courses, 1, Len(courses) - 1), code)

RECURSIVE FirstMatch(_, _)
\* next((course for course in courses if course['code'] == code), None),
\* <<>> for None
FirstMatch(courses, code) ==
    IF courses = <<>>
    THEN <<>>
    ELSE IF Head(courses).code = code
         THEN <<Head(courses)>>
         ELSE FirstMatch(Tail(courses), code)

NotFoundResponse(code) ==
    Redirect("course_catalog", Flash("error", "No course with code found", code))

\* course_details(code)
CourseDetailsOutcome(d, code) ==
    LET l == LoadCourses(d) IN
    IF ~l.ok
    THEN Outcome(l.doc, HandleException, <<"ERROR">>, <<>>)
    ELSE LET course == FirstMatch(l.courses, code) IN
         IF course = <<>>
         THEN Outcome(l.doc, NotFoundResponse(code), <<"ERROR">>, <<>>)
         ELSE Outcome(l.doc, RenderTemplate("course_details.html", course),
                      <<"INFO">>, <<>>)

\* manual_trace()
ManualTraceOutcome(d) ==
    Outcome(d, PlainText("Manual trace recorded", 200), <<"INFO">>, <<>>)

AutoInstrumentedSilent(d) ==
    Outcome(d, PlainText("This route is auto-instrumented", 200), <<>>, <<>>)

\* auto_instrumented()
AutoInstrumentedOutcome(d) ==
    Outcome(d, PlainText("This route is auto-instrumented", 200), <<"INFO">>, <<>>)

-----------------------------------------------------------------------------
(* Spec: requests handled one at a time *)

Workers == {1, 2}

InitialDocs == {AbsentDoc, ListDoc(<<>>), MalformedDoc(0), MalformedDoc(1)}

Init ==
    /\ doc \in InitialDocs
    /\ req = Request("none", NoForm, E)
    /\ resp = NoResponse
    /\ logs = <<>>
    /\ saved = <<>>
    /\ pc = [w \in Workers |-> "idle"]
    /\ local = [w \in Workers |-> <<>>]
    /\ wreq = [w \in Workers |-> Request("none", NoForm, E)]
    /\ wresp = [w \in Workers |-> NoResponse]
    /\ overlapped = FALSE

Handle(r, o) ==
    /\ req' = r
    /\ doc' = o.doc
    /\ resp' = o.resp
    /\ logs' = o.logs
    /\ saved' = saved \o o.saved
    /\ UNCHANGED <<pc, local, wreq, wresp, overlapped>>

Index == Handle(Request("GET /", NoForm, E), IndexOutcome(doc))

CourseCatalog ==
    Handle(Request("GET /catalog", NoForm, E), CourseCatalogOutcome(doc))

AddCourseGet ==
    Handle(Request("GET /add_course", NoForm, E), AddCourseGetOutcome(doc))

AddCoursePost ==
    \E form \in Forms :
        /\ MissingFields(form) # <<>> \/ Len(doc.courses) < MaxCourses
        /\ Handle(Request("POST /add_course", form, E),
                  AddCoursePostOutcome(doc, form))

CourseDetails ==
    \E code \in CodeParams :
        Handle(Request("GET /course", NoForm, code), CourseDetailsOutcome(doc, code))

ManualTrace ==
    Handle(Request("GET /manual-trace", NoForm, E), ManualTraceOutcome(doc))

AutoInstrumented ==
    Handle(Request("GET /auto-instrumented", NoForm, E),
           AutoInstrumentedOutcome(doc))

Next ==
    \/ Index
    \/ CourseCatalog
    \/ AddCourseGet
    \/ AddCoursePost
    \/ CourseDetails
    \/ ManualTrace
    \/ AutoInstrumented

Spec == Init /\ [][Next]_vars

-----------------------------------------------------------------------------
(* ConcSpec: two request threads *)

\* What the threads submit: the forms whose name, instructor and semester
\* are filled in, with no code or the code of course a or b.
ConcForms ==
    {f \in Forms : /\ f.name # <<<<"\t">>>>
                   /\ f.instructor # <<E>>
                   /\ f.semester # <<>>
                   /\ f.code \in {<<>>, <<<<" ", "a", "\t">>>>, <<<<"b">>>>}}

ConcCodeParams == {<<"a">>, <<"b">>, <<"z">>}

FlushAppendsToFile(d, courses) ==
    IF d.kind = "list"
    THEN ListDoc(Append(d.courses, courses[Len(courses)]))
    ELSE ListDoc(courses)

\* The file after the handle opened by open(course, 'w') is closed: the text
\* of json.dump is written at offset 0 over whatever the file holds by then.
Flush(d, courses) ==
    IF d.size <= JsonSize(courses)
    THEN ListDoc(courses)
    ELSE MalformedDoc(d.size)

Busy(w) == \E v \in Workers \ {w} : pc[v] # "idle"

Answer(w, r, response) ==
    /\ wreq' = [wreq EXCEPT ![w] = r]
    /\ wresp' = [wresp EXCEPT ![w] = response]
    /\ overlapped' = (overlapped \/ Busy(w))
    /\ UNCHANGED <<req, resp, logs>>

\* add_course(), POST, up to the return of load_courses() inside save_courses
WAddCourse(w, form) ==
    /\ pc[w] = "idle"
    /\ LET missing == MissingFields(form)
           l == LoadCourses(doc)
       IN  IF missing # <<>>
           THEN /\ Answer(w, Request("POST /add_course", form, E),
                          ValidationError(missing))
                /\ UNCHANGED <<doc, saved, pc, local>>
           ELSE IF ~l.ok
           THEN /\ Answer(w, Request("POST /add_course", form, E), HandleException)
                /\ doc' = l.doc
                /\ UNCHANGED <<saved, pc, local>>
           ELSE /\ Len(saved) + Cardinality({v \in Workers : pc[v] # "idle"})
                       < MaxSaves
                /\ Answer(w, Request("POST /add_course", form, E), NoResponse)
                /\ doc' = l.doc
                /\ local' = [local EXCEPT ![w] = Append(l.courses, Course(form))]
                /\ pc' = [pc EXCEPT ![w] = "open"]
                /\ UNCHANGED saved

\* save_courses: open(course, 'w') creates the file or truncates it
WOpen(w) ==
    /\ pc[w] = "open"
    /\ doc' = MalformedDoc(0)
    /\ pc' = [pc EXCEPT ![w] = "dump"]
    /\ UNCHANGED <<req, resp, logs, saved, local, wreq, wresp, overlapped>>

\* save_courses: json.dump and the close of the file, then the rest of
\* add_course()
WClose(w) ==
    /\ pc[w] = "dump"
    /\ doc' = Flush(doc, local[w])
    /\ saved' = Append(saved, local[w][Len(local[w])])
    /\ wresp' = [wresp EXCEPT ![w] = AddedResponse(local[w][Len(local[w])])]
    /\ local' = [local EXCEPT ![w] = <<>>]
    /\ pc' = [pc EXCEPT ![w] = "idle"]
    /\ UNCHANGED <<req, resp, logs, wreq, overlapped>>

\* course_catalog()
WCourseCatalog(w) ==
    /\ pc[w] = "idle"
    /\ Answer(w, Request("GET /catalog", NoForm, E),
              CourseCatalogOutcome(doc).resp)
    /\ doc' = CourseCatalogOutcome(doc).doc
    /\ UNCHANGED <<saved, pc, local>>

\* course_details(code)
WCourseDetails(w, code) ==
    /\ pc[w] = "idle"
    /\ Answer(w, Request("GET /course", NoForm, code),
              CourseDetailsOutcome(doc, code).resp)
    /\ doc' = CourseDetailsOutcome(doc, code).doc
    /\ UNCHANGED <<saved, pc, local>>

ConcNext ==
    \E w \in Workers :
        \/ \E form \in ConcForms : WAddCourse(w, form)
        \/ WOpen(w)
        \/ WClose(w)
        \/ WCourseCatalog(w)
        \/ \E code \in ConcCodeParams : WCourseDetails(w, code)

ConcSpec == Init /\ [][ConcNext]_vars

-----------------------------------------------------------------------------
(* Vocabulary of the properties *)

\* The persisted sequence; an absent document is the empty sequence.
Courses(d) == IF d.kind = "list" THEN d.courses ELSE <<>>

Blank(v) == \A i \in DOMAIN v : v[i] \in Whitespace

\* The key was not sent, or its value is empty or whitespace only.
FieldBlank(form, f) == form[f] = <<>> \/ Blank(Head(form[f]))

RequiredFieldSet == {RequiredFields[i] : i \in DOMAIN RequiredFields}

SomeRequiredBlank(form) == \E f \in RequiredFieldSet : FieldBlank(form, f)

Trimmed(v) == v = <<>> \/ (v[1] \notin Whitespace /\ v[Len(v)] \notin Whitespace)

\* t is v without its leading and trailing whitespace.
IsTrimOf(t, v) ==
    /\ Trimmed(t)
    /\ \E i \in 0..Len(v) : \E j \in i..Len(v) :
           /\ t = SubSeq(v, i + 1, j)
           /\ Blank(SubSeq(v, 1, i))
           /\ Blank(SubSeq(v, j + 1, Len(v)))

IsPrefix(s, t) == Len(s) <= Len(t) /\ s = SubSeq(t, 1, Len(s))

HasCode(courses, code) == \E i \in DOMAIN courses : courses[i].code = code

FirstIndex(courses, code) ==
    CHOOSE i \in DOMAIN courses :
        /\ courses[i].code = code
        /\ \A j \in 1..(i - 1) : courses[j].code # code

IsDetailView(r) == r.status = 200 /\ r.body = "course_details.html"

IsNotFoundRedirect(r) ==
    r.status = 302 /\ r.location = "course_catalog" /\ r.flash.category = "error"

IsAddedRedirect(r) ==
    r.status = 302 /\ r.location = "course_catalog" /\ r.flash.category = "success"

IsFormRedirect(r) ==
    r.status = 302 /\ r.location = "add_course" /\ r.flash.category = "error"

IsServerError(r) == r.status = 500 /\ r.body = "Internal Server Error"

GetRoutes ==
    {"GET /", "GET /catalog", "GET /add_course", "GET /course",
     "GET /manual-trace", "GET /auto-instrumented"}

-----------------------------------------------------------------------------
(* Properties *)

\* C1: starting from an absent or empty document (under Spec the document
\* is malformed only if it started malformed), after the save_courses calls
\* c1 .. cN have returned one after the other, load_courses() succeeds and
\* returns exactly <<c1, ..., cN>>, duplicates included.
SavedThenLoaded ==
    doc.kind # "malformed" =>
        /\ LoadCourses(doc).ok
        /\ LoadCourses(doc).courses = saved

SavedThenLoadedWitness ==
    /\ Len(saved) = 3
    /\ saved[1] = saved[3]
    /\ saved[2] # saved[1]
    /\ saved[2].code = saved[1].code
    /\ LoadCourses(doc).courses = saved

\* C2: a POST /add_course in which a required field is absent, empty or
\* whitespace only never reaches the store (document and save history are
\* unchanged) and is answered by a redirect to the add-course form, whatever
\* the other fields hold.
BlankSubmissionNotPersisted ==
    [][(req'.route = "POST /add_course" /\ SomeRequiredBlank(req'.form)) =>
           /\ doc' = doc
           /\ saved' = saved
           /\ IsFormRedirect(resp')]_vars

BlankSubmissionWitness ==
    /\ req.route = "POST /add_course"
    /\ Blank(Head(req.form.name)) /\ req.form.name # <<E>>
    /\ ~FieldBlank(req.form, "code")
    /\ req.form.classroom # <<>>
    /\ IsFormRedirect(resp)
    /\ Len(Courses(doc)) = 1

DetailsAfterEveryAdd ==
    [][\A w \in Workers : \A c \in ConcCodeParams :
           WCourseDetails(w, c) =>
               /\ doc.kind # "malformed" =>
                      IF HasCode(Courses(doc), c)
                      THEN wresp'[w] =
                               RenderTemplate("course_details.html",
                                   <<Courses(doc)[FirstIndex(Courses(doc), c)]>>)
                      ELSE IsNotFoundRedirect(wresp'[w])
               /\ HasCode(saved, c) => ~IsNotFoundRedirect(wresp'[w])]_vars

\* C4 as amended: GET /course/<code> on a document that is absent or
\* well-formed renders the first record in file order with that code, also
\* among several, and answers the not-found redirect when no record has it;
\* it never changes the document.  After a successful add of a course with
\* code c, a later GET /course/c renders a detail view of a record with code
\* c provided no request was ever started while another was inside
\* save_courses.
DetailsFirstMatch ==
    [][\A w \in Workers : \A c \in ConcCodeParams :
           WCourseDetails(w, c) =>
               /\ doc' = doc
               /\ doc.kind # "malformed" =>
                      IF HasCode(Courses(doc), c)
                      THEN wresp'[w] =
                               RenderTemplate("course_details.html",
                                   <<Courses(doc)[FirstIndex(Courses(doc), c)]>>)
                      ELSE IsNotFoundRedirect(wresp'[w])
               /\ (HasCode(saved, c) /\ ~overlapped') =>
                      /\ IsDetailView(wresp'[w])
                      /\ wresp'[w].data[1].code = c]_vars

DetailsFirstMatchWitness ==
    \E w \in Workers :
        /\ pc[w] = "idle"
        /\ IsDetailView(wresp[w])
        /\ Len(Courses(doc)) = 2
        /\ doc.courses[1].code = doc.courses[2].code
        /\ doc.courses[1] # doc.courses[2]
        /\ wresp[w].data = <<doc.courses[1]>>
        /\ ~overlapped

\* C5: when the document does not exist, GET /catalog renders the empty
\* listing and GET /course/<code> answers the not-found redirect, neither
\* with a 500, and the document still does not exist afterwards.
AbsentDocumentIsEmpty ==
    [][(doc.kind = "absent" /\ req'.route \in {"GET /catalog", "GET /course"}) =>
           /\ doc' = doc
           /\ ~IsServerError(resp')
           /\ req'.route = "GET /catalog" =>
                  resp' = RenderTemplate("course_catalog.html", <<>>)
           /\ req'.route = "GET /course" => IsNotFoundRedirect(resp')]_vars

AbsentDocumentWitness ==
    /\ doc.kind = "absent"
    /\ req.route = "GET /catalog"
    /\ resp.status = 200
    /\ resp.data = <<>>

\* C6 as stated: every response on every route is accompanied by exactly one
\* log record emitted by the application.
OneLogLinePerResponse == resp.status # 0 => Len(logs) = 1

\* C6 as amended: every response on every route except GET / (GET /catalog,
\* GET and POST /add_course, GET /course/<code>, GET /manual-trace,
\* GET /auto-instrumented and the 500 path) is accompanied by exactly one log
\* record emitted by the application; GET / emits none.
OneLogLineExceptIndex ==
    /\ req.route \notin {"none", "GET /"} => Len(logs) = 1
    /\ req.route = "GET /" => logs = <<>>
    /\ IsServerError(resp) => logs = <<"ERROR">>

OneLogLineWitness ==
    /\ req.route = "POST /add_course"
    /\ IsServerError(resp)
    /\ Len(logs) = 1

\* C7: while the document exists but is malformed, GET /catalog,
\* GET /course/<code> and a POST /add_course that passes validation all end
\* with the generic 500 response, and the document is left as it was: nothing
\* is appended and the file is not truncated.
MalformedDocumentFails ==
    [][(/\ doc.kind = "malformed"
        /\ \/ req'.route \in {"GET /catalog", "GET /course"}
           \/ req'.route = "POST /add_course" /\ ~SomeRequiredBlank(req'.form)) =>
           /\ IsServerError(resp')
           /\ doc' = doc
           /\ saved' = saved]_vars

MalformedDocumentWitness ==
    /\ doc.kind = "malformed"
    /\ doc.size > 0
    /\ req.route = "POST /add_course"
    /\ ~SomeRequiredBlank(req.form)
    /\ IsServerError(resp)

\* C8: save_courses takes no lock.  A save that completes answers with the
\* success redirect and leaves in the file the list it loaded plus its own
\* record, whatever other threads have written since it loaded (or a
\* malformed file, when its text lands on a longer one).  The witness is the
\* lost update: both threads answered success, two saves returned, and the
\* document that started empty holds one record.
SaveWritesOwnSnapshot ==
    [][\A w \in Workers :
           (pc[w] = "dump" /\ pc'[w] = "idle") =>
               /\ IsAddedRedirect(wresp'[w])
               /\ doc'.kind = "list" => doc'.courses = local[w]
               /\ doc'.kind # "list" => doc'.kind = "malformed"]_vars

LostUpdate ==
    /\ \A w \in Workers : pc[w] = "idle" /\ IsAddedRedirect(wresp[w])
    /\ Len(saved) = 2
    /\ saved[1] # saved[2]
    /\ doc.kind = "list"
    /\ Len(doc.courses) = 1
    /\ doc.courses[1] \in {saved[1], saved[2]}

\* C9: with requests handled one at a time the persisted sequence is append
\* only: the sequence before a request is a prefix of the sequence after it,
\* the document changes only through a POST /add_course answered with the
\* success redirect, which appends one record, and no GET route changes it.
AppendOnly ==
    [][/\ IsPrefix(Courses(doc), Courses(doc'))
       /\ doc' # doc =>
              /\ req'.route = "POST /add_course"
              /\ IsAddedRedirect(resp')
              /\ Len(Courses(doc')) = Len(Courses(doc)) + 1
       /\ req'.route \in GetRoutes => doc' = doc]_vars

AppendOnlyWitness ==
    /\ req.route = "GET /course"
    /\ IsDetailView(resp)
    /\ Len(Courses(doc)) = 3
    /\ doc.courses[1] # doc.courses[2]

\* C10: in every reachable state, interleavings included, every persisted
\* record has exactly the nine fields, its code, name, instructor and
\* semester are non-empty, and no value has leading or trailing whitespace.
RecordsWellFormed ==
    \A i \in DOMAIN doc.courses :
        LET c == doc.courses[i] IN
            /\ DOMAIN c = FieldNames
            /\ \A f \in RequiredFieldSet : c[f] # <<>>
            /\ \A f \in FieldNames : Trimmed(c[f])

RecordsWellFormedWitness ==
    /\ overlapped
    /\ Len(Courses(doc)) = 2
    /\ doc.courses[1].classroom = <<"r">>
    /\ doc.courses[2].code = <<"a">>

====
